---- MODULE Spec2Model ----
(***************************************************************************)
(* Task queue and worker pipeline of the vodokanal bot.                    *)
(*                                                                         *)
(*   bot/services/database.py   the Task Store (table tasks)               *)
(*   bot/handlers.py            the ingestion surface (voice_message_...)  *)
(*   bot/worker.py              BackgroundWorker.run / process_task /      *)
(*                              handle_archive / send_report               *)
(*                                                                         *)
(* Every await of the worker is one step of the model, so that the         *)
(* request handlers interleave with it exactly where the event loop can    *)
(* switch.  Texts are sequences of words; a SQL value is a text, with      *)
(* SqlNull, SqlTrue and SqlFalse standing for NULL, 1 and 0.               *)
(***************************************************************************)
EXTENDS Integers, Sequences, FiniteSets, TLC

\* ------------------------------------------------------------- bounds
\* rows the table tasks may hold
MaxTasks == 3
\* messages the ingestion surface accepts
MaxMessages == 2
\* entries of one archive
MaxEntries == 2
\* failures of the services around the worker (Telegram, S3, SpeechKit, SQLite, the
\* file system) in one run of the program
MaxFaults == 2

VARIABLES
    tasks,      \* the table tasks: row i has id i (AUTOINCREMENT, never deleted)
    hist,       \* per row, the status values the row went through (observer)
    wpc,        \* where the worker coroutine is suspended
    cur,        \* the dict get_pending_task returned to run()
    sel,        \* the row fetched by get_pending_tasks SELECT (0: none)
    loc,        \* locals of process_task / handle_archive
    exc,        \* the exception in flight in the worker ("none": none)
    files,      \* local scratch files
    bucket,     \* object keys held by the S3 bucket
    sent,       \* Telegram messages the worker delivered: <<chat, task id>>
    faults,     \* how many calls of the services around the worker have failed
    callers     \* coroutines calling get_pending_task side by side

vars == <<tasks, hist, wpc, cur, sel, loc, exc, files, bucket, sent, faults, callers>>

\* ------------------------------------------------------------- values
SqlNull == <<"NULL">>
SqlTrue == <<"1">>
SqlFalse == <<"0">>

NoExc == "none"
E_Telegram == "TelegramAPIError"
E_S3 == "ClientError"
E_Creds == "No Yandex Cloud credentials provided (API Key or IAM Token)"
E_Submit == "SpeechKit API error"
E_Poll == "Operation status check error"
E_Empty == "Empty result from SpeechKit"
E_Attr == "AttributeError"
E_Key == "KeyError"
E_Type == "TypeError"
E_Kwarg == "complete_task() got an unexpected keyword argument 'resident_phrase'"
E_Bind == "sqlite3.InterfaceError"
E_DB == "sqlite3.OperationalError"
E_OS == "OSError"
E_Zip == "BadZipFile"

\* status column
Statuses == {"queued", "processing", "completed", "error"}

\* ------------------------------------------------------------- Task Store
\* CREATE TABLE tasks: the column defaults of a fresh row
NewRow(id, user_id, file_type, source_path, file_name, ts) ==
    [id |-> id, user_id |-> user_id, file_type |-> file_type,
     source_path |-> source_path, file_name |-> file_name,
     status |-> "queued",
     result_summary |-> SqlNull, result_sentiment |-> SqlNull,
     result_text |-> SqlNull, address |-> SqlNull, dialog_type |-> SqlNull,
     refusal_marker |-> SqlNull,
     is_relevant_hard |-> SqlFalse, category_refusal_works |-> SqlFalse,
     category_no_brigade |-> SqlFalse, category_long_duration |-> SqlFalse,
     category_redirect |-> SqlFalse,
     cleaned_street |-> SqlNull, cleaned_house |-> SqlNull,
     error_message |-> SqlNull,
     created_at |-> ts]

\* CURRENT_TIMESTAMP has a resolution of one second: a row is stamped with the
\* second of the previous insert or with a later one.
LastStamp(t) == IF Len(t) = 0 THEN 0 ELSE t[Len(t)].created_at
Stamps(t) == {LastStamp(t), LastStamp(t) + 1}

\* an INSERT into a table whose status column defaults to processing
add_task_processing(t, user_id, file_type, source_path, file_name, ts) ==
    Append(t, [NewRow(Len(t) + 1, user_id, file_type, source_path, file_name, ts)
                   EXCEPT !.status = "processing"])

\* INSERT INTO tasks (user_id, file_type, source_path, file_name)
add_task(t, user_id, file_type, source_path, file_name, ts) ==
    Append(t, NewRow(Len(t) + 1, user_id, file_type, source_path, file_name, ts))

\* WHERE status = queued
QueuedIds(t) == {i \in 1..Len(t) : t[i].status = "queued"}

\* ORDER BY id DESC LIMIT 1: the newest matching row instead of the oldest
OrderByIdDescLimit1(S) ==
    IF S = {} THEN 0 ELSE CHOOSE i \in S : \A j \in S : i >= j

\* ORDER BY id ASC LIMIT 1 (0 when no row matches: fetchone() gives None)
OrderByIdAscLimit1(S) ==
    IF S = {} THEN 0 ELSE CHOOSE i \in S : \A j \in S : i <= j

\* the SELECT of get_pending_task
SelectPending(t) == OrderByIdAscLimit1(QueuedIds(t))

\* an UPDATE that claims every queued row at once
MarkProcessingAll(t, id) ==
    [i \in 1..Len(t) |->
        IF t[i].status = "queued" THEN [t[i] EXCEPT !.status = "processing"]
        ELSE t[i]]

\* UPDATE tasks SET status = processing WHERE id = ?
MarkProcessing(t, id) == [t EXCEPT ![id].status = "processing"]

\* the dict get_pending_task returns
TaskDict(r) ==
    [id |-> r.id, user_id |-> r.user_id, file_type |-> r.file_type,
     source_path |-> r.source_path, file_name |-> r.file_name]

NoTask == [id |-> 0, user_id |-> 0, file_type |-> "", source_path |-> <<>>,
           file_name |-> ""]

\* the parameters of complete_task after task_id, with their defaults
CompleteParams ==
    {"task_id", "summary", "sentiment", "full_text", "address", "dialog_type",
     "refusal_marker", "is_relevant_hard", "category_refusal_works",
     "category_no_brigade", "category_long_duration", "category_redirect",
     "cleaned_street", "cleaned_house"}

CompleteDefaults ==
    [address |-> SqlNull, dialog_type |-> SqlNull, refusal_marker |-> SqlNull,
     is_relevant_hard |-> SqlFalse, category_refusal_works |-> SqlFalse,
     category_no_brigade |-> SqlFalse, category_long_duration |-> SqlFalse,
     category_redirect |-> SqlFalse,
     cleaned_street |-> SqlNull, cleaned_house |-> SqlNull]

\* two UPDATEs, each committed: the status first, the results in a later one
complete_task_status_first(t, id, a) ==
    [t EXCEPT ![id].status = "completed"]

\* an UPDATE without its WHERE clause: every row takes the results
complete_task_every_row(t, id, a) ==
    [i \in 1..Len(t) |->
        [t[i] EXCEPT !.status = "completed",
                     !.result_summary = a.summary,
                     !.result_sentiment = a.sentiment,
                     !.result_text = a.full_text]]

\* UPDATE tasks SET status = completed, result_summary = ?, ... WHERE id = ?
complete_task(t, id, a) ==
    [t EXCEPT ![id] =
        [@ EXCEPT !.status = "completed",
                  !.result_summary = a.summary,
                  !.result_sentiment = a.sentiment,
                  !.result_text = a.full_text,
                  !.address = a.address,
                  !.dialog_type = a.dialog_type,
                  !.refusal_marker = a.refusal_marker,
                  !.is_relevant_hard = a.is_relevant_hard,
                  !.category_refusal_works = a.category_refusal_works,
                  !.category_no_brigade = a.category_no_brigade,
                  !.category_long_duration = a.category_long_duration,
                  !.category_redirect = a.category_redirect,
                  !.cleaned_street = a.cleaned_street,
                  !.cleaned_house = a.cleaned_house]]

\* an UPDATE that fails the row and every row inserted after it
fail_task_cascade(t, id, error_message) ==
    [i \in 1..Len(t) |->
        IF i >= id THEN [t[i] EXCEPT !.status = "error",
                                     !.error_message = <<error_message>>]
        ELSE t[i]]

\* an UPDATE that stores the message and leaves the status as it is
fail_task_message_only(t, id, error_message) ==
    [t EXCEPT ![id].error_message = <<error_message>>]

\* an UPDATE that sets the status and drops the message
fail_task_status_only(t, id, error_message) ==
    [t EXCEPT ![id].status = "error"]

\* UPDATE tasks SET status = error, error_message = ? WHERE id = ?
fail_task(t, id, error_message) ==
    [t EXCEPT ![id].status = "error", ![id].error_message = <<error_message>>]

\* the observer of the status column: a rows new status is appended to its history
Observed(h, t) ==
    [i \in 1..Len(t) |->
        IF i > Len(h) THEN <<t[i].status>>
        ELSE IF h[i][Len(h[i])] = t[i].status THEN h[i]
        ELSE Append(h[i], t[i].status)]

\* ------------------------------------------------------------- texts
\* A text is a sequence of words.  The two IVR markers are the words "m1"
\* ("разговоры записываются") and "m2" ("целях контроля качества"); "M1" and
\* "M2" are the same phrases written with capitals.
Lower(w) == CASE w = "M1" -> "m1" [] w = "M2" -> "m2" [] OTHER -> w

\* text.lower()
LowerText(t) == [i \in 1..Len(t) |-> Lower(t[i])]

\* the number of characters of a word
WordLen(w) ==
    CASE Lower(w) = "m1" -> 22
      [] Lower(w) = "m2" -> 23
      [] w = "da" -> 2
      [] w = "net" -> 3
      [] OTHER -> 12

RECURSIVE SumLen(_)
SumLen(t) == IF t = <<>> THEN 0 ELSE WordLen(Head(t)) + SumLen(Tail(t))

\* len(text): the words and the single blanks between them
CharLen(t) == IF t = <<>> THEN 0 ELSE SumLen(t) + Len(t) - 1

\* marker in text_lower
Contains(t, w) == \E i \in 1..Len(t) : t[i] = w

\* text_lower.find(marker) + len(marker): the first occurrence, not the last
FindEnd(t, w) == CHOOSE i \in 1..Len(t) : t[i] = w /\ \A j \in 1..(i-1) : t[j] # w

\* text_lower.rfind(marker) + len(marker), as a count of words
RFindEnd(t, w) == CHOOSE i \in 1..Len(t) : t[i] = w /\ \A j \in (i+1)..Len(t) : t[j] # w

\* text[idx:].strip()
AfterMarker(text, marker) ==
    SubSeq(text, RFindEnd(LowerText(text), marker) + 1, Len(text))

ivr_markers == <<"m1", "m2">>

\* worker.py: a remainder of at most this many characters is not kept
IvrMinLen == 5

\* the loop "for marker in ivr_markers" from marker k on
RECURSIVE StripFrom(_, _)
StripFrom(text, k) ==
    IF k > Len(ivr_markers) THEN text
    ELSE IF Contains(LowerText(text), ivr_markers[k])
            /\ CharLen(AfterMarker(text, ivr_markers[k])) > IvrMinLen
         THEN AfterMarker(text, ivr_markers[k])
         ELSE StripFrom(text, k + 1)

\* IVR CLEANING
StripIVR(text) == StripFrom(text, 1)

\* ------------------------------------------------------------- JSON values
JStr(t) == [ty |-> "str", v |-> t]
JNull == [ty |-> "null", v |-> <<>>]
JBool(b) == [ty |-> "bool", v |-> IF b THEN <<"true">> ELSE <<"false">>]
JNum(n) == [ty |-> "num", v |-> <<ToString(n)>>]
JList(s) == [ty |-> "list", v |-> s]
JObj(f) == [ty |-> "obj", v |-> f]
EmptyObj == JObj(<<>>)

\* dict.get(key, default)
Get(o, key, default) == IF key \in DOMAIN o.v THEN o.v[key] ELSE default

\* bool(x)
Truthy(x) ==
    CASE x.ty = "null" -> FALSE
      [] x.ty = "bool" -> x.v = <<"true">>
      [] x.ty = "num" -> x.v # <<"0">>
      [] x.ty = "str" -> x.v # <<>>
      [] x.ty = "list" -> x.v # <<>>
      [] x.ty = "obj" -> DOMAIN x.v # {}

\* str(x); the elements of a container are rendered one level deep
PyStrFlat(x) ==
    CASE x.ty = "str" -> x.v
      [] x.ty = "null" -> <<"None">>
      [] x.ty = "bool" -> IF x.v = <<"true">> THEN <<"True">> ELSE <<"False">>
      [] x.ty = "num" -> x.v
      [] x.ty = "list" -> <<"[..]">>
      [] x.ty = "obj" -> <<"{..}">>

RECURSIVE JoinStr(_, _)
\* sep.join([str(x) for x in xs])
JoinStr(xs, sep) ==
    IF xs = <<>> THEN <<>>
    ELSE IF Len(xs) = 1 THEN PyStrFlat(xs[1])
    ELSE PyStrFlat(xs[1]) \o sep \o JoinStr(Tail(xs), sep)

PyStr(x) ==
    CASE x.ty = "list" -> <<"[">> \o JoinStr(x.v, <<",">>) \o <<"]">>
      [] OTHER -> PyStrFlat(x)

\* the value sqlite3 stores for a bound parameter ("unsupported": the binding raises)
SqlBind(x) ==
    CASE x.ty = "str" -> x.v
      [] x.ty = "null" -> SqlNull
      [] x.ty = "bool" -> IF x.v = <<"true">> THEN SqlTrue ELSE SqlFalse
      [] x.ty = "num" -> x.v
      [] OTHER -> <<"unsupported">>

Bindable(x) == x.ty \notin {"list", "obj"}

\* ------------------------------------------------------------- analysis responses
\* The text the analysis service returns is a sequence of lines, each a sequence
\* of tokens: three backquotes (a code fence), "json" (the language tag), a word of prose, or
\* a token of DocTokens standing for one complete JSON document.
DocTokens == <<"D1", "D2", "D3", "D4", "D5", "D6", "D7", "D8">>

Fence == "FENCE"

\* the JSON documents the tokens stand for
Docs ==
    << \* D1: well formed, relevant, no_brigade
       JObj([summary |-> JStr(<<"sum1">>), sentiment |-> JStr(<<"negative">>),
             address |-> JStr(<<"addr1">>), dialog_type |-> JStr(<<"complaint">>),
             is_relevant_hard |-> JBool(TRUE),
             resident_phrase |-> JStr(<<"when">>),
             accident_duration |-> JStr(<<"2days">>),
             stats_categories |->
                 JObj([refusal_deadline |-> JBool(FALSE), no_brigade |-> JBool(TRUE),
                       long_duration |-> JBool(FALSE),
                       redirect_other_org |-> JBool(FALSE)]),
             location |-> JObj([street |-> JStr(<<"lenina">>), house |-> JStr(<<"5">>)]),
             markers |->
                 JList(<<JObj([marker_type |-> JStr(<<"delay">>),
                               operator_phrase |-> JStr(<<"wait">>)])>>),
             cleaned_dialogue |-> JStr(<<"dialogue1">>)]),
       \* D2: well formed, not relevant, yet with categories and a marker
       JObj([summary |-> JStr(<<"sum2">>), sentiment |-> JStr(<<"neutral">>),
             address |-> JList(<<JStr(<<"addr2">>), JStr(<<"addr3">>)>>),
             dialog_type |-> JStr(<<"consult">>),
             is_relevant_hard |-> JBool(FALSE),
             resident_phrase |-> JStr(<<>>),
             accident_duration |-> JStr(<<>>),
             stats_categories |->
                 JObj([refusal_deadline |-> JBool(TRUE), no_brigade |-> JBool(TRUE),
                       long_duration |-> JBool(TRUE),
                       redirect_other_org |-> JBool(TRUE)]),
             location |-> JObj([street |-> JStr(<<>>), house |-> JStr(<<>>)]),
             markers |->
                 JList(<<JObj([marker_type |-> JStr(<<"delay">>),
                               operator_phrase |-> JStr(<<"wait">>)])>>),
             cleaned_dialogue |-> JStr(<<"da">>)]),
       \* D3: an object with no field at all
       EmptyObj,
       \* D4: valid JSON that is not an object
       JList(<<>>),
       \* D5: fields of the wrong type
       JObj([summary |-> JNull, is_relevant_hard |-> JNull,
             stats_categories |-> JNull]),
       \* D6: a marker entry lacking operator_phrase
       JObj([summary |-> JStr(<<"sum6">>),
             is_relevant_hard |-> JBool(TRUE),
             markers |-> JList(<<JObj([marker_type |-> JStr(<<"delay">>)])>>)]),
       \* D7: llm.py 144-150, what analyze_text builds on a status other than 200
       JObj([summary |-> JStr(<<"ai-error", "500">>), sentiment |-> JStr(<<"ERROR">>),
             address |-> JStr(<<"error">>), dialog_type |-> JStr(<<"error">>),
             cleaned_dialogue |-> JStr(<<"api-error", "overloaded">>)]),
       \* D8: llm.py 166-171, what analyze_text builds when the request raises
       JObj([summary |-> JStr(<<"client-error", "timeout">>),
             cleaned_dialogue |-> JStr(<<"exception", "timeout">>)]) >>

DocIndex(tok) == CHOOSE k \in 1..Len(DocTokens) : DocTokens[k] = tok
IsDocToken(tok) == \E k \in 1..Len(DocTokens) : DocTokens[k] = tok

RECURSIVE FlattenLines(_)
FlattenLines(r) == IF r = <<>> THEN <<>> ELSE Head(r) \o FlattenLines(Tail(r))

RECURSIVE LStrip(_)
LStrip(r) == IF r # <<>> /\ Head(r) = <<>> THEN LStrip(Tail(r)) ELSE r
RECURSIVE RStrip(_)
RStrip(r) ==
    IF r # <<>> /\ r[Len(r)] = <<>> THEN RStrip(SubSeq(r, 1, Len(r) - 1)) ELSE r

\* json_response_str.strip()
StripLines(r) == RStrip(LStrip(r))

\* cleaned_str.startswith(three backquotes)
StartsWithFence(r) == r # <<>> /\ r[1] # <<>> /\ r[1][1] = Fence

\* cleaned_str.endswith(three backquotes)
EndsWithFence(r) ==
    r # <<>> /\ r[Len(r)] # <<>> /\ r[Len(r)][Len(r[Len(r)])] = Fence

\* cleaned_str.split("\n", 1)[-1]
DropFirstLine(r) == IF Len(r) > 1 THEN Tail(r) ELSE r

\* cleaned_str.rsplit("\n", 1)[0]
DropLastLine(r) == IF Len(r) > 1 THEN SubSeq(r, 1, Len(r) - 1) ELSE r

\* a cleaning that drops the line of the opening fence and keeps the closing one
CleanFencesOpeningOnly(r) ==
    IF StartsWithFence(StripLines(r)) THEN DropFirstLine(StripLines(r))
    ELSE StripLines(r)

\* worker.py 128-133: the fences taken off
CleanFences(r) ==
    LET a == StripLines(r)
        b == IF StartsWithFence(a) THEN DropFirstLine(a) ELSE a
    IN  IF EndsWithFence(b) THEN DropLastLine(b) ELSE b

\* json.loads succeeds on exactly one document, blanks and line breaks around it
JsonValid(r) == Len(FlattenLines(r)) = 1 /\ IsDocToken(FlattenLines(r)[1])
JsonLoads(r) == Docs[DocIndex(FlattenLines(r)[1])]

RECURSIVE TakeChars(_, _)
\* s[:n], cut at a word
TakeChars(t, n) ==
    IF t = <<>> \/ WordLen(Head(t)) > n THEN <<>>
    ELSE <<Head(t)>> \o TakeChars(Tail(t), n - WordLen(Head(t)) - 1)

\* worker.py 173: json_response_str[:100]
MarkersSliceLen == 100

\* worker.py 167: a cleaned dialogue shorter than this is replaced by the transcript
MinDialogueLen == 10

\* the first exception of the comprehension over markers (worker.py 160)
RECURSIVE MarkerListError(_)
MarkerListError(ms) ==
    IF ms = <<>> THEN NoExc
    ELSE IF Head(ms).ty # "obj" THEN E_Type
    ELSE IF "marker_type" \notin DOMAIN Head(ms).v
            \/ "operator_phrase" \notin DOMAIN Head(ms).v THEN E_Key
    ELSE MarkerListError(Tail(ms))

MarkersError(markers) ==
    IF ~Truthy(markers) THEN NoExc
    ELSE IF markers.ty = "list" THEN MarkerListError(markers.v)
    ELSE E_Type

RECURSIVE MarkerStrings(_)
\* worker.py 160-161: the entries formatted and joined with "; "
MarkerStrings(ms) ==
    IF ms = <<>> THEN <<>>
    ELSE PyStr(Head(ms).v["marker_type"]) \o <<"(">>
         \o PyStr(Head(ms).v["operator_phrase"]) \o <<")">>
         \o (IF Len(ms) > 1 THEN <<";">> ELSE <<>>) \o MarkerStrings(Tail(ms))

\* len(x) ("-1": TypeError, x has no len())
PyLen(x) ==
    CASE x.ty = "str" -> CharLen(x.v)
      [] x.ty = "list" -> Len(x.v)
      [] x.ty = "obj" -> Cardinality(DOMAIN x.v)
      [] OTHER -> -1

\* worker.py 177-185: a list is joined, anything else goes through str()
Sanitize(x, sep) == IF x.ty = "list" THEN JoinStr(x.v, sep) ELSE PyStr(x)

\* worker.py 105-122: the values the locals hold before the try
DefaultArgs(text) ==
    [summary |-> <<"parse-error">>, sentiment |-> <<"N/A">>,
     full_text |-> text, address |-> <<"undefined">>,
     dialog_type |-> <<"undefined">>, refusal_marker |-> <<>>,
     is_relevant_hard |-> JBool(FALSE),
     category_refusal_works |-> JBool(FALSE), category_no_brigade |-> JBool(FALSE),
     category_long_duration |-> JBool(FALSE), category_redirect |-> JBool(FALSE),
     cleaned_street |-> JNull, cleaned_house |-> JNull,
     resident_phrase |-> JNull, accident_duration |-> JNull]

\* worker.py 170-174: except json.JSONDecodeError
DegradedArgs(r, text) ==
    [DefaultArgs(text) EXCEPT
        !.summary = <<"response-format-error">>,
        !.refusal_marker = TakeChars(FlattenLines(r), MarkersSliceLen),
        !.full_text = text]

\* worker.py 137-168 and 176-189 on a parsed document
ParsedArgs(data, text) ==
    LET stats == Get(data, "stats_categories", EmptyObj)
        location == Get(data, "location", EmptyObj)
        markers == Get(data, "markers", JList(<<>>))
        dialogue == Get(data, "cleaned_dialogue", JStr(text))
        final == IF PyLen(dialogue) < MinDialogueLen THEN JStr(text) ELSE dialogue
    IN  [summary |-> PyStr(Get(data, "summary", JStr(<<"no-summary">>))),
         sentiment |-> PyStr(Get(data, "sentiment", JStr(<<"N/A">>))),
         full_text |-> Sanitize(final, <<"\n">>),
         address |-> Sanitize(Get(data, "address", JStr(<<"not-given">>)), <<",">>),
         dialog_type |-> PyStr(Get(data, "dialog_type", JStr(<<"N/A">>))),
         refusal_marker |->
             IF Truthy(markers) THEN MarkerStrings(markers.v) ELSE <<"no-markers">>,
         is_relevant_hard |-> Get(data, "is_relevant_hard", JBool(FALSE)),
         category_refusal_works |-> Get(stats, "refusal_deadline", JBool(FALSE)),
         category_no_brigade |-> Get(stats, "no_brigade", JBool(FALSE)),
         category_long_duration |-> Get(stats, "long_duration", JBool(FALSE)),
         category_redirect |-> Get(stats, "redirect_other_org", JBool(FALSE)),
         cleaned_street |-> Get(location, "street", JStr(<<>>)),
         cleaned_house |-> Get(location, "house", JStr(<<>>)),
         resident_phrase |-> Get(data, "resident_phrase", JStr(<<>>)),
         accident_duration |-> Get(data, "accident_duration", JStr(<<>>))]

\* the exception lines 137-168 raise on a parsed document, in the order of the code
ParseError(data, text) ==
    IF data.ty # "obj" THEN E_Attr
    ELSE IF Get(data, "stats_categories", EmptyObj).ty # "obj" THEN E_Attr
    ELSE IF Get(data, "location", EmptyObj).ty # "obj" THEN E_Attr
    ELSE IF MarkersError(Get(data, "markers", JList(<<>>))) # NoExc
         THEN MarkersError(Get(data, "markers", JList(<<>>)))
    ELSE IF PyLen(Get(data, "cleaned_dialogue", JStr(text))) < 0 THEN E_Type
    ELSE NoExc

\* worker.py 124-189: what the parsing step leaves: the exception it raises, the
\* arguments of complete_task, and whether the local "markers" got bound
ParseAnalysis(r, text) ==
    IF ~JsonValid(CleanFences(r))
    THEN [exc |-> NoExc, args |-> DegradedArgs(r, text), markers |-> JList(<<>>)]
    ELSE LET data == JsonLoads(CleanFences(r))
         IN  IF ParseError(data, text) # NoExc
             THEN [exc |-> ParseError(data, text), args |-> DefaultArgs(text),
                   markers |-> JList(<<>>)]
             ELSE [exc |-> NoExc, args |-> ParsedArgs(data, text),
                   markers |-> Get(data, "markers", JList(<<>>))]

\* the keywords of the call at worker.py 193-211
ProcessTaskKwargs ==
    {"task_id", "summary", "sentiment", "full_text", "address", "dialog_type",
     "refusal_marker", "is_relevant_hard", "category_refusal_works",
     "category_no_brigade", "category_long_duration", "category_redirect",
     "cleaned_street", "cleaned_house", "resident_phrase", "accident_duration"}

\* Python binds a call only when every keyword names a parameter
Binds(kwargs, params) == kwargs \subseteq params

RawArgs ==
    {"is_relevant_hard", "category_refusal_works", "category_no_brigade",
     "category_long_duration", "category_redirect", "cleaned_street",
     "cleaned_house"}

\* sqlite3 refuses a list or a dict as a parameter
ArgsBindable(a) == \A k \in RawArgs : Bindable(a[k])

\* the parameters as sqlite3 stores them
DbArgs(a) ==
    [summary |-> a.summary, sentiment |-> a.sentiment, full_text |-> a.full_text,
     address |-> a.address, dialog_type |-> a.dialog_type,
     refusal_marker |-> a.refusal_marker,
     is_relevant_hard |-> SqlBind(a.is_relevant_hard),
     category_refusal_works |-> SqlBind(a.category_refusal_works),
     category_no_brigade |-> SqlBind(a.category_no_brigade),
     category_long_duration |-> SqlBind(a.category_long_duration),
     category_redirect |-> SqlBind(a.category_redirect),
     cleaned_street |-> SqlBind(a.cleaned_street),
     cleaned_house |-> SqlBind(a.cleaned_house)]

\* worker.py 283: complete_task(task_id, f"... {files_found}", "N/A", "Archive processed")
ArchiveArgs(files_found) ==
    [summary |-> <<"unpacked", ToString(files_found)>>, sentiment |-> <<"N/A">>,
     full_text |-> <<"Archive", "processed">>,
     address |-> CompleteDefaults.address,
     dialog_type |-> CompleteDefaults.dialog_type,
     refusal_marker |-> CompleteDefaults.refusal_marker,
     is_relevant_hard |-> CompleteDefaults.is_relevant_hard,
     category_refusal_works |-> CompleteDefaults.category_refusal_works,
     category_no_brigade |-> CompleteDefaults.category_no_brigade,
     category_long_duration |-> CompleteDefaults.category_long_duration,
     category_redirect |-> CompleteDefaults.category_redirect,
     cleaned_street |-> CompleteDefaults.cleaned_street,
     cleaned_house |-> CompleteDefaults.cleaned_house]

\* ------------------------------------------------------------- inputs
Users == {7}

\* what a user sends: a voice message, or a document with a MIME type and a name
Messages ==
    {[content_type |-> "voice", mime |-> "audio/ogg", stem |-> "voice", ext |-> ".ogg"],
     [content_type |-> "document", mime |-> "application/zip", stem |-> "calls",
      ext |-> ".zip"],
     [content_type |-> "document", mime |-> "application/x-rar-compressed",
      stem |-> "calls", ext |-> ".rar"],
     [content_type |-> "document", mime |-> "application/pdf", stem |-> "bill",
      ext |-> ".pdf"]}

\* speaker_map: channelTag 1 is the operator, 2 the resident (with the colon
\* that follows the name)
SpeakerNames == [operator |-> "Operator:", resident |-> "Resident:"]

speaker_name(tag) == IF tag = "1" THEN SpeakerNames.operator ELSE SpeakerNames.resident

\* speechkit.py 101-114: the loop over the chunks from chunk k on; a chunk of the
\* speaker of the chunk before it continues the line, any other one starts a line
\* with the name of its speaker
RECURSIVE TextParts(_, _, _)
TextParts(chunks, k, last_tag) ==
    IF k > Len(chunks) THEN <<>>
    ELSE (IF chunks[k].tag = last_tag THEN <<>> ELSE <<speaker_name(chunks[k].tag)>>)
         \o chunks[k].text \o TextParts(chunks, k + 1, chunks[k].tag)

\* speechkit.py 85-117: the text of a finished operation
get_result(chunks) == TextParts(chunks, 1, "")

\* the chunks of a finished operation: none, one whose alternative has no text,
\* and chunks with recognised words
OperationResults ==
    {<<>>,
     <<[tag |-> "1", text |-> <<>>]>>,
     <<[tag |-> "1", text |-> <<"hello">>]>>,
     <<[tag |-> "1", text |-> <<"M1">>], [tag |-> "2", text |-> <<"hello">>]>>,
     <<[tag |-> "1", text |-> <<"m1">>], [tag |-> "1", text |-> <<"da">>]>>}

\* the text SpeechKit returns once the operation is done
Transcripts == {get_result(c) : c \in OperationResults}

\* the text the analysis service returns
Responses ==
    {<<<<"D1">>>>, <<<<"D2">>>>, <<<<"D3">>>>, <<<<"D4">>>>, <<<<"D5">>>>,
     <<<<"D6">>>>,
     <<<<"sorry", "no", "analysis">>>>,
     <<<<Fence, "json">>, <<"D1">>, <<Fence>>>>}

\* the text analyze_text returns when its request failed: the status was not 200,
\* or the request raised
ErrorResponses == {<<<<"D7">>>>, <<<<"D8">>>>}

\* the files an archive may hold
EntryPool ==
    {[dir |-> "", stem |-> "a", ext |-> ".MP3"],
     [dir |-> "", stem |-> "b", ext |-> ".txt"],
     [dir |-> "d", stem |-> "a", ext |-> ".MP3"]}

\* file_name.lower() on the extension
LowerExt(e) == CASE e = ".MP3" -> ".mp3" [] OTHER -> e

\* worker.py 267: the recognised audio extensions
AudioExts == {".mp3", ".ogg", ".wav", ".m4a", ".opus"}
\* a comparison of the extension that does not lower the file name first
IsAudioEntryCaseSensitive(e) == e.ext \in AudioExts

IsAudioEntry(e) == LowerExt(e.ext) \in AudioExts

\* os.walk lists the files of the root before those of its directories
WalkOrdered(w) ==
    \A i, j \in 1..Len(w) : (i < j /\ w[i].dir # "") => w[j].dir # ""

\* the listings os.walk may produce for an archive of at most MaxEntries files
Archives ==
    {w \in UNION {[1..n -> EntryPool] : n \in 0..MaxEntries} :
        /\ \A i, j \in 1..Len(w) : i # j => w[i] # w[j]
        /\ WalkOrdered(w)}

AudioCount(w, from) == Cardinality({j \in from..Len(w) : IsAudioEntry(w[j])})

\* the next recognised entry after position i of the walk (0: none)
NextAudio(w, i) ==
    IF \E j \in (i+1)..Len(w) : IsAudioEntry(w[j])
    THEN CHOOSE j \in (i+1)..Len(w) :
            IsAudioEntry(w[j]) /\ \A k \in (i+1)..(j-1) : ~IsAudioEntry(w[k])
    ELSE 0

\* worker.py 22: TARGET_CHAT_ID
target_chat_id == "group"

\* ------------------------------------------------------------- names
\* f"temp_{task_id}_{file_name}"
TempName(task) == <<"temp", ToString(task.id), task.file_name>>
\* f"temp_extract_{task_id}"
ExtractDir(task) == <<"temp_extract", ToString(task.id)>>
\* f"transcript_{task_id}.txt"
TranscriptName(task) == <<"transcript", ToString(task.id)>>
\* f"queue/{task_id}/{file_name}"
QueueKey(task) == <<"queue", ToString(task.id), task.file_name>>
\* f"archives/{task_id}/{file_name}"
ArchiveKey(task, entry) == <<"archives", ToString(task.id), entry.stem \o entry.ext>>
\* storage.py 39: the URL of an uploaded object
Url(key) == <<"https">> \o key
\* a test that takes no source for a URL
StartsWithHttpNever(p) == FALSE

\* source_path.startswith("http")
StartsWithHttp(p) == p # <<>> /\ Head(p) = "https"

\* ------------------------------------------------------------- state
LocInit ==
    [object_name |-> <<>>, file_url |-> <<>>, text |-> <<>>, text_lower |-> <<>>,
     response |-> <<>>, args |-> DefaultArgs(<<>>), markers |-> JList(<<>>),
     caught |-> NoExc, walk |-> <<>>, i |-> 0, files_found |-> 0]

CallerIds == {1, 2}

Init ==
    /\ tasks = <<>>
    /\ hist = <<>>
    /\ wpc = "gp_select"
    /\ cur = NoTask
    /\ sel = 0
    /\ loc = LocInit
    /\ exc = NoExc
    /\ files = {}
    /\ bucket = {}
    /\ sent = {}
    /\ faults = 0
    /\ callers = [c \in CallerIds |-> [pc |-> "select", sel |-> 0, got |-> {}]]

\* where the worker is suspended inside run() itself, between two tasks
LoopPcs == {"gp_select", "gp_update", "idle", "backoff", "exited"}

\* rows the ingestion surface inserted
Ingested(t) == Cardinality({i \in 1..Len(t) : t[i].file_type # "audio_subtask"})

\* rows still to be inserted by the archive expansion in progress
Reserved ==
    IF wpc \in {"ha_upload", "ha_add"} THEN AudioCount(loc.walk, loc.i) ELSE 0

\* one step of the worker: the new table, suspension point, locals, exception in
\* flight, scratch files, bucket and delivered messages; n service calls failed
Step(t, w, l, e, f, b, s, n) ==
    /\ faults + n <= MaxFaults
    /\ faults' = faults + n
    /\ tasks' = t
    /\ hist' = Observed(hist, t)
    /\ wpc' = w
    /\ loc' = IF w \in LoopPcs THEN LocInit ELSE l
    /\ cur' = IF w \in LoopPcs THEN NoTask ELSE cur
    /\ exc' = e
    /\ files' = f
    /\ bucket' = b
    /\ sent' = s
    /\ UNCHANGED <<sel, callers>>

\* the outcomes of a call that may fail: TRUE (it returns) or FALSE (it raises)
Outcomes == IF faults < MaxFaults THEN BOOLEAN ELSE {TRUE}
Failed(ok) == IF ok THEN 0 ELSE 1

\* ------------------------------------------------------------- ingestion
MimeHasRar(mime) == mime = "application/x-rar-compressed"
MimeIsAudio(mime) == mime \in {"audio/ogg", "audio/mpeg"}
is_zip(m) == m.mime = "application/zip" \/ m.ext = ".zip"
is_rar(m) == MimeHasRar(m.mime) \/ m.ext = ".rar"

\* handlers.py 384-418: whether the message is queued at all
Accepted(m) ==
    m.content_type \in {"voice", "audio"}
    \/ (m.content_type = "document" /\ (is_zip(m) \/ is_rar(m) \/ MimeIsAudio(m.mime)))

\* handlers.py 384-416: effective_content_type
EffectiveType(m) ==
    IF m.content_type # "document" THEN m.content_type
    ELSE IF is_zip(m) THEN "application/zip"
    ELSE IF is_rar(m) THEN "application/x-rar-compressed"
    ELSE "document"

\* handlers.py 384-407: original_name
OriginalName(m) == m.stem \o m.ext

\* the Telegram file_id of the message
FileId(m) == <<"tg", m.stem \o m.ext>>

\* handlers.py 379-433: a message arrives; add_task inserts the row or raises
voice_message_handler ==
    /\ Len(tasks) + Reserved < MaxTasks
    /\ Ingested(tasks) < MaxMessages
    /\ \E m \in Messages, user_id \in Users, ok \in BOOLEAN, ts \in Stamps(tasks) :
          /\ tasks' = IF Accepted(m) /\ ok
                      THEN add_task(tasks, user_id, EffectiveType(m), FileId(m),
                                    OriginalName(m), ts)
                      ELSE tasks
          /\ hist' = Observed(hist, tasks')
          /\ UNCHANGED <<wpc, cur, sel, loc, exc, files, bucket, sent, faults, callers>>

\* ------------------------------------------------------------- the worker loop
\* a handler that logs the exception and leaves the loop
RunExceptBreak == "exited"

\* worker.py 36-38: except Exception: log, sleep(5), next iteration
RunExcept == "backoff"

\* where run() goes when process_task returned or raised
AfterReturn(pend) == IF pend = NoExc THEN "gp_select" ELSE RunExcept

\* database.py 92-97: the SELECT of get_pending_task (or the store raises)
gp_select ==
    /\ wpc = "gp_select"
    /\ \E ok \in Outcomes :
          /\ sel' = IF ok THEN SelectPending(tasks) ELSE 0
          /\ wpc' = IF ~ok THEN RunExcept
                    ELSE IF SelectPending(tasks) = 0 THEN "idle" ELSE "gp_update"
          /\ faults' = faults + Failed(ok)
          /\ UNCHANGED <<tasks, hist, cur, loc, exc, files, bucket, sent, callers>>

\* database.py 99-109: the UPDATE and commit of get_pending_task (or the store raises)
gp_update ==
    /\ wpc = "gp_update"
    /\ \E ok \in Outcomes :
          /\ tasks' = IF ok THEN MarkProcessing(tasks, sel) ELSE tasks
          /\ hist' = Observed(hist, tasks')
          /\ cur' = IF ok THEN TaskDict(tasks[sel]) ELSE NoTask
          /\ wpc' = IF ok THEN "pt_start" ELSE RunExcept
          /\ sel' = 0
          /\ faults' = faults + Failed(ok)
          /\ UNCHANGED <<loc, exc, files, bucket, sent, callers>>

\* a loop that sleeps only after an exception and stops polling once it found
\* nothing queued
wake_after_error ==
    /\ wpc = "backoff"
    /\ wpc' = "gp_select"
    /\ UNCHANGED <<tasks, hist, cur, sel, loc, exc, files, bucket, sent, faults, callers>>

\* worker.py 29-31 and 38: the sleep is over
wake ==
    /\ wpc \in {"idle", "backoff"}
    /\ wpc' = "gp_select"
    /\ UNCHANGED <<tasks, hist, cur, sel, loc, exc, files, bucket, sent, faults, callers>>

\* ------------------------------------------------------------- process_task
\* an except clause that submits the recording again
RaiseRetry(e, l, f, b, s, n) ==
    Step(tasks, "pt_submit", [l EXCEPT !.caught = e], NoExc, f, b, s, n)

\* an exception raised inside the try of process_task: the except clause binds it
\* and awaits fail_task
Raise(e, l, f, b, s, n) ==
    Step(tasks, "pt_except", [l EXCEPT !.caught = e], e, f, b, s, n)

\* whether os.remove(temp_filename) is reached, and so may fail
RemoveOutcomes(f) == IF TempName(cur) \in f THEN BOOLEAN ELSE {TRUE}

\* worker.py 229-246 up to its await: pend is the exception the finally clause
\* will let through, rm_ok whether os.remove succeeds
ProcessTaskFinally(f, l, pend, rm_ok) ==
    IF TempName(cur) \in f /\ ~rm_ok
    THEN [wpc |-> RunExcept, exc |-> NoExc, files |-> f]
    ELSE IF l.object_name # <<>>
    THEN [wpc |-> "pt_delete", exc |-> pend, files |-> f \ {TempName(cur)}]
    ELSE [wpc |-> AfterReturn(pend), exc |-> NoExc, files |-> f \ {TempName(cur)}]

\* the locals the finally clause of process_task still reads
FinallyLocals(l) == [LocInit EXCEPT !.object_name = l.object_name]

\* process_task returns normally from its try
Return(t, l, f, b, s, n) ==
    \E rm_ok \in RemoveOutcomes(f) :
        LET fin == ProcessTaskFinally(f, l, NoExc, rm_ok)
        IN  Step(t, fin.wpc, FinallyLocals(l), fin.exc, fin.files, b, s,
                 n + Failed(rm_ok))

\* worker.py 40-64: from the call to the first await
process_task_start ==
    /\ wpc = "pt_start"
    /\ IF cur.file_type = "application/zip"
       THEN Step(tasks, "ha_download", loc, NoExc, files \cup {ExtractDir(cur)},
                 bucket, sent, 0)
       ELSE IF StartsWithHttp(cur.source_path)
       THEN Step(tasks, "pt_submit", [loc EXCEPT !.file_url = cur.source_path],
                 NoExc, files, bucket, sent, 0)
       ELSE Step(tasks, "pt_download", loc, NoExc, files, bucket, sent, 0)

\* worker.py 63-67: get_file and download_file
pt_download ==
    /\ wpc = "pt_download"
    /\ \E o \in {"ok", "raise", "partial"} :
          CASE o = "ok" ->
                 Step(tasks, "pt_upload", [loc EXCEPT !.object_name = QueueKey(cur)],
                      NoExc, files \cup {TempName(cur)}, bucket, sent, 0)
            [] o = "raise" -> Raise(E_Telegram, loc, files, bucket, sent, 1)
            [] o = "partial" ->
                 Raise(E_Telegram, loc, files \cup {TempName(cur)}, bucket, sent, 1)

\* worker.py 68-71: upload_file, then the local file is removed
pt_upload ==
    /\ wpc = "pt_upload"
    /\ \E o \in {"ok", "raise", "remove_fails"} :
          LET l == [loc EXCEPT !.file_url = Url(loc.object_name)]
              b == bucket \cup {loc.object_name}
          IN  CASE o = "ok" ->
                     Step(tasks, "pt_submit", l, NoExc, files \ {TempName(cur)}, b,
                          sent, 0)
                [] o = "raise" -> Raise(E_S3, loc, files, bucket, sent, 1)
                [] o = "remove_fails" -> Raise(E_OS, l, files, b, sent, 1)

\* worker.py 77: submit_recognition
pt_submit ==
    /\ wpc = "pt_submit"
    /\ \E ok \in BOOLEAN :
          IF ok THEN Step(tasks, "pt_poll", loc, NoExc, files, bucket, sent, 0)
          ELSE Raise(E_Submit, loc, files, bucket, sent, 1)

\* worker.py 78-103: one poll of wait_for_completion; on a result the text is
\* checked and stripped and analyze_text is called
pt_poll ==
    /\ wpc = "pt_poll"
    /\ \E o \in {"pending", "raise", "done"}, t \in Transcripts :
          CASE o = "pending" -> UNCHANGED vars
            [] o = "raise" -> Raise(E_Poll, loc, files, bucket, sent, 1)
            [] o = "done" ->
                 IF t = <<>> THEN Raise(E_Empty, loc, files, bucket, sent, 0)
                 ELSE Step(tasks, "pt_analyze", [loc EXCEPT !.text_lower = LowerText(t),
                                      !.text = StripIVR(t)],
                           NoExc, files, bucket, sent, 0)

\* worker.py 103-211: analyze_text returns; the response is parsed and
\* complete_task is called
pt_analyze ==
    /\ wpc = "pt_analyze"
    /\ \E r \in Responses \cup ErrorResponses :
          LET p == ParseAnalysis(r, loc.text)
              l == [loc EXCEPT !.response = r, !.args = p.args, !.markers = p.markers]
              n == IF r \in ErrorResponses THEN 1 ELSE 0
          IN  IF p.exc # NoExc THEN Raise(p.exc, l, files, bucket, sent, n)
              ELSE IF ~Binds(ProcessTaskKwargs, CompleteParams)
              THEN Raise(E_Kwarg, l, files, bucket, sent, n)
              ELSE Step(tasks, "pt_complete", l, NoExc, files, bucket, sent, n)

\* worker.py 224-226: fail_task, then the finally clause
pt_except ==
    /\ wpc = "pt_except"
    /\ \E ok \in BOOLEAN, rm_ok \in RemoveOutcomes(files) :
          LET fin == ProcessTaskFinally(files, loc, IF ok THEN NoExc ELSE E_DB, rm_ok)
          IN  Step(IF ok THEN fail_task(tasks, cur.id, exc) ELSE tasks,
                   fin.wpc, FinallyLocals(loc), fin.exc, fin.files, bucket, sent,
                   Failed(ok) + Failed(rm_ok))

\* worker.py 241-246: delete_file returns, its own failure swallowed
pt_delete ==
    /\ wpc = "pt_delete"
    /\ \E deleted \in BOOLEAN :
          Step(tasks, AfterReturn(exc), loc, NoExc, files,
               IF deleted THEN bucket \ {loc.object_name} ELSE bucket, sent,
               Failed(deleted))

\* ------------------------------------------------------------- handle_archive
\* worker.py 288-295: what the finally clause may do to the scratch files f
CleanupOutcomes(f) ==
    {"ok"} \cup (IF TempName(cur) \in f THEN {"remove_fails"} ELSE {})
           \cup (IF ExtractDir(cur) \in f THEN {"rmtree_fails"} ELSE {})

FilesAfterCleanup(f, c) ==
    CASE c = "ok" -> f \ {TempName(cur), ExtractDir(cur)}
      [] c = "remove_fails" -> f
      [] c = "rmtree_fails" -> f \ {TempName(cur)}

\* handle_archive ends with exception e in flight (NoExc: it returns): its finally
\* clause runs, then the except or the finally clause of process_task
ArchiveExit(t, e, l, f, b, s, n) ==
    \E c \in CleanupOutcomes(f) :
        LET e2 == IF c = "ok" THEN e ELSE E_OS
            f2 == FilesAfterCleanup(f, c)
            n2 == n + (IF c = "ok" THEN 0 ELSE 1)
        IN  IF e2 # NoExc
            THEN Step(t, "pt_except", [l EXCEPT !.caught = e2], e2, f2, b, s, n2)
            ELSE Return(t, l, f2, b, s, n2)

\* after entry i of the walk: the next upload, or complete_task
ArchiveNext(w, i) == IF NextAudio(w, i) = 0 THEN "ha_complete" ELSE "ha_upload"

\* worker.py 255-272: the archive is downloaded, extracted and walked
ha_download ==
    /\ wpc = "ha_download"
    /\ \E o \in {"raise", "partial", "badzip", "ok"}, w \in Archives :
          CASE o = "raise" ->
                 ArchiveExit(tasks, E_Telegram, loc, files, bucket, sent, 1)
            [] o = "partial" ->
                 ArchiveExit(tasks, E_Telegram, loc, files \cup {TempName(cur)},
                             bucket, sent, 1)
            [] o = "badzip" ->
                 ArchiveExit(tasks, E_Zip, loc, files \cup {TempName(cur)}, bucket,
                             sent, 0)
            [] o = "ok" ->
                 /\ Len(tasks) + AudioCount(w, 1) <= MaxTasks
                 /\ Step(tasks, ArchiveNext(w, 0),
                         [loc EXCEPT !.walk = w, !.i = NextAudio(w, 0)],
                         NoExc, files \cup {TempName(cur)}, bucket, sent, 0)

\* worker.py 271-272: upload_file of the entry
ha_upload ==
    /\ wpc = "ha_upload"
    /\ \E ok \in BOOLEAN :
          IF ok
          THEN Step(tasks, "ha_add", loc, NoExc, files,
                    bucket \cup {ArchiveKey(cur, loc.walk[loc.i])}, sent, 0)
          ELSE ArchiveExit(tasks, E_S3, loc, files, bucket, sent, 1)

\* worker.py 275-281: add_task of the entry
ha_add ==
    /\ wpc = "ha_add"
    /\ \E ok \in BOOLEAN, ts \in Stamps(tasks) :
          IF ok
          THEN Step(add_task(tasks, cur.user_id, "audio_subtask",
                             Url(ArchiveKey(cur, loc.walk[loc.i])),
                             loc.walk[loc.i].stem \o loc.walk[loc.i].ext, ts),
                    ArchiveNext(loc.walk, loc.i),
                    [loc EXCEPT !.i = NextAudio(loc.walk, loc.i),
                                !.files_found = @ + 1],
                    NoExc, files, bucket, sent, 0)
          ELSE ArchiveExit(tasks, E_DB, loc, files, bucket, sent, 1)

\* ------------------------------------------------------------- shared awaits
\* worker.py 193-211 and 283: the UPDATE of complete_task (or the store raises)
await_complete_task ==
    /\ wpc \in {"pt_complete", "ha_complete"}
    /\ \E ok \in BOOLEAN :
          IF wpc = "ha_complete"
          THEN IF ok
               THEN Step(complete_task(tasks, cur.id, ArchiveArgs(loc.files_found)),
                         "ha_notify", loc, NoExc, files, bucket, sent, 0)
               ELSE ArchiveExit(tasks, E_DB, loc, files, bucket, sent, 1)
          ELSE IF ~ArgsBindable(loc.args)
          THEN Raise(E_Bind, loc, files, bucket, sent, 0)
          ELSE IF ~ok THEN Raise(E_DB, loc, files, bucket, sent, 1)
          ELSE IF target_chat_id # ""
          THEN Step(complete_task(tasks, cur.id, DbArgs(loc.args)), "pt_report", loc,
                    NoExc, files \cup {TranscriptName(cur)}, bucket, sent, 0)
          ELSE Step(complete_task(tasks, cur.id, DbArgs(loc.args)), "pt_notify", loc,
                    NoExc, files, bucket, sent, 0)

\* worker.py 222, 284, 344-358: a Telegram send returns or raises
bot_send ==
    /\ wpc \in {"pt_report", "pt_report_failed", "pt_notify", "ha_notify"}
    /\ \E ok \in BOOLEAN :
          CASE wpc = "ha_notify" ->
                 IF ok
                 THEN ArchiveExit(tasks, NoExc, loc, files, bucket,
                                  sent \cup {<<"user", cur.id>>}, 0)
                 ELSE ArchiveExit(tasks, E_Telegram, loc, files, bucket, sent, 1)
            [] wpc = "pt_notify" ->
                 IF ok
                 THEN Return(tasks, loc, files, bucket, sent \cup {<<"user", cur.id>>}, 0)
                 ELSE Raise(E_Telegram, loc, files, bucket, sent, 1)
            [] wpc = "pt_report" ->
                 IF ok
                 THEN Step(tasks, "pt_notify", loc, NoExc, files \ {TranscriptName(cur)},
                           bucket, sent \cup {<<"group", cur.id>>}, 0)
                 ELSE Step(tasks, "pt_report_failed", loc, NoExc, files, bucket, sent, 1)
            [] wpc = "pt_report_failed" ->
                 IF ok
                 THEN Step(tasks, "pt_notify", loc, NoExc, files \ {TranscriptName(cur)},
                           bucket, sent \cup {<<"group-error", cur.id>>}, 0)
                 ELSE Raise(E_Telegram, loc, files \ {TranscriptName(cur)}, bucket,
                            sent, 1)

\* ------------------------------------------------------------- specification
Worker ==
    \/ gp_select \/ gp_update \/ wake
    \/ process_task_start \/ pt_download \/ pt_upload \/ pt_submit \/ pt_poll
    \/ pt_analyze \/ pt_except \/ pt_delete
    \/ ha_download \/ ha_upload \/ ha_add
    \/ await_complete_task \/ bot_send

Next == voice_message_handler \/ Worker

Spec == Init /\ [][Next]_vars

\* the event loop keeps scheduling the worker: a step of run() that can be taken
\* is taken, and a poll of wait_for_completion that only repeats is not a step
FairSpec == Spec /\ WF_vars(Worker)

\* failures injected in one behaviour of the specification of the queue
MaxQueueFaults == 1

NextQueue == Next /\ faults' <= MaxQueueFaults

SpecQueue == Init /\ [][NextQueue]_vars

\* worker.py 26-38: the event loop keeps scheduling run(), so a step of the loop
\* itself (the calls of get_pending_task, the end of a sleep) that can be taken
\* is taken; and every run of process_task comes back to the loop
FairSpecQueue ==
    /\ SpecQueue
    /\ WF_vars(gp_select \/ gp_update \/ wake)
    /\ []<>(wpc \in LoopPcs)

\* ------------------------------------------------------------- the operator
\* operator commands handled in one behaviour
MaxCommands == 1

\* the replies of the operator handlers, kept in sent with task id 0
OperatorReplies == {"clean-done", "clean-error", "report", "report-error"}

Commands(s) == Cardinality({m \in s : m[1] \in OperatorReplies})

\* the methods YandexStorageService defines
StorageMethods == {"upload_file", "delete_file", "cleanup_prefix"}

\* glob.glob("temp_*") + glob.glob("transcript_*") + glob.glob("export_*")
MatchesScratch(f) == f[1] \in {"temp", "temp_extract", "transcript", "export"}

\* a regular file: os.remove(f) removes it, and raises on a directory (swallowed)
IsRegularFile(f) == f[1] # "temp_extract"

\* a wipe that also empties the table tasks
command_clean_with_table ==
    /\ Commands(sent) < MaxCommands
    /\ tasks' = <<>>
    /\ hist' = <<>>
    /\ sent' = sent \cup {<<"clean-done", 0>>}
    /\ UNCHANGED <<wpc, cur, sel, loc, exc, files, bucket, faults, callers>>

\* handlers.py 338-377: /clean. The attribute lookup storage.cleanup_all raises
\* AttributeError when the class has no such method, and the except clause
\* reports it; otherwise the bucket is emptied and each matching file removed
\* unless its os.remove fails.
command_clean_handler ==
    /\ Commands(sent) < MaxCommands
    /\ IF "cleanup_all" \in StorageMethods
       THEN /\ bucket' = {}
            /\ \E kept \in SUBSET {f \in files : MatchesScratch(f)} :
                  /\ \A f \in files : (MatchesScratch(f) /\ ~IsRegularFile(f)) => f \in kept
                  /\ files' = {f \in files : ~MatchesScratch(f)} \cup kept
            /\ sent' = sent \cup {<<"clean-done", 0>>}
       ELSE /\ sent' = sent \cup {<<"clean-error", 0>>}
            /\ UNCHANGED <<files, bucket>>
    /\ UNCHANGED <<tasks, hist, wpc, cur, sel, loc, exc, faults, callers>>

\* database.py 112-118: SELECT * FROM tasks ORDER BY id DESC
get_all_tasks(t) == [i \in 1..Len(t) |-> t[Len(t) + 1 - i]]

\* the positional arguments get_all_tasks takes besides self
GetAllTasksArity == 0

\* handlers.py 82-152 and 154-228: generate_excel_report and generate_stats_report
\* call get_all_tasks(start_date, end_date); a call with more arguments than the
\* method takes raises TypeError, which the except clause reports
generate_report ==
    /\ Commands(sent) < MaxCommands
    /\ sent' = sent \cup {<<IF 2 > GetAllTasksArity THEN "report-error" ELSE "report", 0>>}
    /\ UNCHANGED <<tasks, hist, wpc, cur, sel, loc, exc, files, bucket, faults, callers>>

\* service failures in a behaviour with operator commands
MaxOperatorFaults == 1

NextOperator ==
    \/ Next /\ faults' <= MaxOperatorFaults
    \/ command_clean_handler
    \/ generate_report

SpecOperator == Init /\ [][NextOperator]_vars

\* ------------------------------------------------------------- concurrent callers
\* database.py 93-98: caller c awaits the SELECT of get_pending_task
caller_select(c) ==
    /\ callers[c].pc = "select"
    /\ \E ok \in Outcomes :
          LET row == IF ok THEN SelectPending(tasks) ELSE 0
          IN  /\ callers' = [callers EXCEPT
                               ![c].sel = row,
                               ![c].pc = IF row = 0 THEN "select" ELSE "update"]
              /\ faults' = faults + Failed(ok)
    /\ UNCHANGED <<tasks, hist, wpc, cur, sel, loc, exc, files, bucket, sent>>

\* database.py 100-108: caller c awaits its UPDATE and commit, and returns the row
caller_update(c) ==
    /\ callers[c].pc = "update"
    /\ \E ok \in Outcomes :
          /\ tasks' = IF ok THEN MarkProcessing(tasks, callers[c].sel) ELSE tasks
          /\ callers' = [callers EXCEPT
                           ![c].pc = "select",
                           ![c].sel = 0,
                           ![c].got = IF ok THEN @ \cup {callers[c].sel} ELSE @]
          /\ faults' = faults + Failed(ok)
    /\ hist' = Observed(hist, tasks')
    /\ UNCHANGED <<wpc, cur, sel, loc, exc, files, bucket, sent>>

\* the ingestion surface and two coroutines that call get_pending_task
NextCallers ==
    \/ voice_message_handler
    \/ \E c \in CallerIds : caller_select(c)
    \/ \E c \in CallerIds : caller_update(c)

SpecCallers == Init /\ [][NextCallers]_vars

\* ------------------------------------------------------------- the parsing step alone
\* the ways a response may carry the document d: 0 bare, 1 between two fence
\* lines, 2 the same with a language tag, 3 the same with blank lines around,
\* 4 fences and document on one line, 5 the closing fence on the line of the
\* document
Layout(d, k) ==
    CASE k = 0 -> <<<<d>>>>
      [] k = 1 -> <<<<Fence>>, <<d>>, <<Fence>>>>
      [] k = 2 -> <<<<Fence, "json">>, <<d>>, <<Fence>>>>
      [] k = 3 -> <<<<>>, <<Fence, "json">>, <<d>>, <<Fence>>, <<>>>>
      [] k = 4 -> <<<<Fence, d, Fence>>>>
      [] k = 5 -> <<<<Fence, "json">>, <<d, Fence>>>>

Layouts == 0..5

\* the documents that are JSON objects
ObjectTokens == {DocTokens[k] : k \in {j \in 1..Len(DocTokens) : Docs[j].ty = "obj"}}

\* the transcripts the parsing step may be handed
ParseTexts == {<<"hello">>, <<"m1", "da">>}

\* analyze_text has returned the response loc.response for the transcript loc.text
InitParse ==
    /\ tasks = <<>> /\ hist = <<>> /\ cur = NoTask /\ sel = 0 /\ exc = NoExc
    /\ files = {} /\ bucket = {} /\ sent = {} /\ faults = 0
    /\ callers = [c \in CallerIds |-> [pc |-> "select", sel |-> 0, got |-> {}]]
    /\ wpc = "parse"
    /\ \E d \in ObjectTokens, k \in Layouts, t \in ParseTexts :
          loc = [LocInit EXCEPT !.text = t, !.response = Layout(d, k)]

\* worker.py 124-189: the parsing step on the response
parse_response ==
    /\ wpc = "parse"
    /\ wpc' = "parsed"
    /\ loc' = [loc EXCEPT !.args = ParseAnalysis(loc.response, loc.text).args,
                          !.markers = ParseAnalysis(loc.response, loc.text).markers,
                          !.caught = ParseAnalysis(loc.response, loc.text).exc]
    /\ UNCHANGED <<tasks, hist, cur, sel, exc, files, bucket, sent, faults, callers>>

SpecParse == InitParse /\ [][parse_response]_vars

\* ------------------------------------------------------------- the IVR cleaning alone
\* the words of a transcript handed to the IVR cleaning
MaxWords == 3

StripWords == {"m1", "M1", "m2", "da", "net", "hello"}

StripTexts == UNION {[1..k -> StripWords] : k \in 0..MaxWords}

\* wait_for_completion has returned the transcript loc.text
InitStrip ==
    /\ tasks = <<>> /\ hist = <<>> /\ cur = NoTask /\ sel = 0 /\ exc = NoExc
    /\ files = {} /\ bucket = {} /\ sent = {} /\ faults = 0
    /\ callers = [c \in CallerIds |-> [pc |-> "select", sel |-> 0, got |-> {}]]
    /\ wpc = "strip"
    /\ \E t \in StripTexts : loc = [LocInit EXCEPT !.text = t]

\* worker.py 83-100: the IVR cleaning of the transcript
strip_ivr ==
    /\ wpc = "strip"
    /\ wpc' = "stripped"
    /\ loc' = [loc EXCEPT !.text_lower = LowerText(loc.text),
                          !.text = StripIVR(loc.text)]
    /\ UNCHANGED <<tasks, hist, cur, sel, exc, files, bucket, sent, faults, callers>>

SpecStrip == InitStrip /\ [][strip_ivr]_vars

\* ------------------------------------------------------------- claims
Rows == 1..Len(tasks)

\* the analysis responses the claims name
PlainText == <<<<"sorry", "no", "analysis">>>>
WellFormed == <<<<"D1">>>>

\* exceptions of the services the worker calls after the analysis has returned
ServiceErrors == {E_DB, E_Telegram, E_OS}

\* C1: the status sequence of every task is one of [queued], [queued, processing],
\* [queued, processing, completed], [queued, processing, error].
C1_StatusSequences ==
    \A i \in Rows :
        hist[i] \in {<<"queued">>, <<"queued", "processing">>,
                     <<"queued", "processing", "completed">>,
                     <<"queued", "processing", "error">>}

\* C2: no task is handed to both of two callers of get_pending_task whose SELECT
\* and UPDATE steps interleave.
C2_OneReceiver ==
    \A i \in Rows : ~(i \in callers[1].got /\ i \in callers[2].got)

\* C3: rows are created in id order with nondecreasing created_at, and a row has
\* left queued only when every older row has left it: the oldest queued task is
\* the one claimed.
C3_OldestFirst ==
    \A a, b \in Rows :
        a < b => /\ tasks[a].created_at <= tasks[b].created_at
                 /\ tasks[b].status # "queued" => tasks[a].status # "queued"

\* C3 witness: a subtask of an archive is being processed while a message
\* enqueued after it still waits.
C3_Witness ==
    \E a, b \in Rows :
        /\ a < b
        /\ tasks[a].file_type = "audio_subtask" /\ tasks[a].status = "processing"
        /\ tasks[b].file_type # "audio_subtask" /\ tasks[b].status = "queued"

\* C4: a row whose status is not processing is changed by no step other than
\* the claim that takes it from queued to processing; complete_task and fail_task
\* leave it as it is.
C4_OnlyProcessingChanges ==
    [][\A i \in Rows :
          (tasks[i].status # "processing" /\ tasks'[i] # tasks[i])
             => (tasks[i].status = "queued"
                 /\ tasks'[i] = [tasks[i] EXCEPT !.status = "processing"])]_vars

\* C5: a row whose result fields are populated has status completed.
C5_ResultsOnlyOnCompleted ==
    \A i \in Rows :
        (tasks[i].result_summary # SqlNull \/ tasks[i].result_text # SqlNull
           \/ tasks[i].result_sentiment # SqlNull)
        => tasks[i].status = "completed"

\* C6: once the analysis has returned, whatever its text, no exception of the
\* parsing step or of the call of complete_task reaches the except clause of
\* process_task: only a failing service can fail the task.
C6_ParsingNeverFails ==
    (wpc = "pt_except" /\ loc.response # <<>>) => exc \in ServiceErrors

\* C7: after an analysis response that is plain text the run awaits complete_task
\* with the stripped transcript, the placeholder summary and all flags false, and
\* is in the except clause only when a service failed.
C7_PlainTextCompletes ==
    loc.response = PlainText =>
        /\ wpc = "pt_except" => exc \in ServiceErrors
        /\ loc.args = DegradedArgs(PlainText, loc.text)

\* C8: the run of an audio task whose analysis returned the well-formed document
\* with is_relevant_hard and no_brigade true does not record the task as failed
\* unless a service failed.
C8_EndToEnd ==
    [][(wpc = "pt_except" /\ wpc' # wpc /\ loc.response = WellFormed
          /\ exc \notin ServiceErrors)
          => tasks'[cur.id].status # "error"]_vars

C10_LoopNeverEnds ==
    [][/\ wpc' # "exited"
       /\ (wpc = "backoff" /\ wpc' # wpc) => wpc' = "gp_select"]_vars

\* C10 witness: fail_task raised, the task is left in processing, and the loop is
\* in its backoff.
C10_Witness ==
    /\ wpc = "backoff"
    /\ \E i \in Rows : tasks[i].status = "processing"

\* C11: a task that has been claimed (status processing) eventually has status
\* completed or error, when the worker keeps being scheduled and every call it
\* awaits returns or raises.
C11_ClaimedTerminates ==
    \A i \in 1..MaxTasks :
        (i \in Rows /\ tasks[i].status = "processing")
            ~> (i \in Rows /\ tasks[i].status \in {"completed", "error"})

\* C12: a row goes from queued to processing only in the step in which
\* get_pending_task returns it to run(), taken while no run is in progress, and
\* the row becomes the task of the run that starts; as long as that run has not
\* returned to the loop, its task stays the same.
C12_OneRunAtATime ==
    [][/\ \A i \in Rows :
             (tasks[i].status = "queued" /\ tasks'[i].status = "processing")
                => (wpc = "gp_update" /\ cur = NoTask
                    /\ wpc' = "pt_start" /\ cur'.id = i)
       /\ (wpc \notin LoopPcs /\ wpc' \notin LoopPcs) => cur' = cur]_vars

\* C12 witness: the run of the first task has ended and the run of the second
\* task is in progress.
C12_Witness ==
    /\ wpc \notin LoopPcs
    /\ cur.id = 2
    /\ tasks[1].status \in {"completed", "error"}

\* the four category arguments of complete_task
CategoryFlags ==
    {"category_refusal_works", "category_no_brigade", "category_long_duration",
     "category_redirect"}

ChildrenOf(id) ==
    {j \in Rows : /\ tasks[j].file_type = "audio_subtask"
                  /\ tasks[j].source_path[3] = ToString(id)}

\* the entries of a listing whose name ends in a recognised audio extension
Recognised(w) == {j \in 1..Len(w) : LowerExt(w[j].ext) \in AudioExts}

C15_NoScratchLeft ==
    \A f \in files : wpc \notin LoopPcs /\ f[2] = ToString(cur.id)

\* the messages of a failed analysis request: the status that was not 200, or the
\* exception the request raised
AnalysisErrors == {"YandexGPT API error", "aiohttp.ClientError"}

\* C16: when the request of analyze_text has failed, the run is in the except
\* clause of process_task with the message of that failure, so that the task is
\* failed with it and not completed.
C16_AnalysisFailureFails ==
    loc.response \in ErrorResponses
        => (wpc = "pt_except" /\ exc \in AnalysisErrors)

\* C17: after a well-formed response every normalized field the parser produced,
\* resident_phrase and accident_duration included, is a parameter of
\* complete_task, so that the UPDATE stores it, and the call does not raise.
C17_EveryFieldPersisted ==
    loc.response = WellFormed =>
        /\ \A k \in DOMAIN loc.args : k \in CompleteParams
        /\ wpc = "pt_except" => exc \in ServiceErrors

\* what the parsing step left in the locals
Parsed == [exc |-> loc.caught, args |-> loc.args, markers |-> loc.markers]

ArchiveTypes == {"application/zip", "application/x-rar-compressed"}

\* C19: a claimed task whose type is an archive type, zip or rar, is never
\* submitted to transcription nor analysed: the run never waits on a recognition
\* operation or holds a transcript for it.
C19_ArchiveNeverTranscribed ==
    cur.file_type \in ArchiveTypes => wpc \notin {"pt_poll", "pt_analyze"}

\* the result columns of a row other than its summary
AnalysisColumns ==
    {"result_sentiment", "result_text", "address", "dialog_type", "refusal_marker",
     "cleaned_street", "cleaned_house"}

\* C20: a completed archive row carries the count summary and nothing else: its
\* transcript, its sentiment and its other analysis columns are still NULL.
C20_ParentCountOnly ==
    \A i \in Rows :
        (tasks[i].file_type = "application/zip" /\ tasks[i].status = "completed")
            => \A c \in AnalysisColumns : tasks[i][c] = SqlNull

\* C21: the UPDATE that completes an archive parent finds every subtask of it
\* still queued; a step that changes a subtask leaves the row of its parent as it
\* was, and a step that gives the parent a terminal status leaves every subtask
\* as it was.
C21_ParentAndChildrenApart ==
    [][\A p \in Rows :
          tasks[p].file_type = "application/zip" =>
              /\ \A c \in ChildrenOf(p) : tasks'[c] # tasks[c] => tasks'[p] = tasks[p]
              /\ (/\ tasks'[p].status # tasks[p].status
                  /\ tasks'[p].status \in {"completed", "error"})
                     => \A c \in ChildrenOf(p) : tasks'[c] = tasks[c]
              /\ (wpc = "ha_complete" /\ wpc' = "ha_notify" /\ cur.id = p)
                     => /\ tasks'[p].status = "completed"
                        /\ \A c \in ChildrenOf(p) : tasks[c].status = "queued"]_vars

\* C21 witness: the parent is completed, one of its subtasks has been claimed and
\* failed, and the other one is still queued.
C21_Witness ==
    \E p \in Rows :
        /\ tasks[p].file_type = "application/zip"
        /\ tasks[p].status = "completed"
        /\ \E c, d \in ChildrenOf(p) :
              tasks[c].status = "error" /\ tasks[d].status = "queued"

\* C22: the owner of a task has been sent a message only if the row of the task
\* is completed, at that moment and ever after: no row that is not completed, and
\* so no row in error, has a message to its owner.
C22_OwnerToldOnlyOfCompleted ==
    \A i \in Rows : <<"user", i>> \in sent => tasks[i].status = "completed"

\* C23: when /clean has answered, the bucket holds no object and no local file
\* named temp_*, transcript_* or export_* is left.
C23_WipeLeavesNothing ==
    [][(\E k \in {"clean-done", "clean-error"} : <<k, 0>> \in sent' \ sent)
          => /\ bucket' = {}
             /\ \A f \in files' : ~(IsRegularFile(f) /\ MatchesScratch(f))]_vars

\* C24: a step never removes a row nor changes the id of one; a step that
\* changes the table is a step of add_task (one row appended, the others as they
\* were), of get_pending_task, of complete_task or of fail_task (one row
\* changed); /clean and the report handlers leave the table as it was.
C24_OnlyFourWriters ==
    [][/\ Len(tasks') >= Len(tasks)
       /\ \A i \in Rows : tasks'[i].id = tasks[i].id
       /\ tasks' # tasks =>
             \/ /\ Len(tasks') = Len(tasks) + 1
                /\ SubSeq(tasks', 1, Len(tasks)) = tasks
                /\ tasks'[Len(tasks')].status = "queued"
             \/ /\ Len(tasks') = Len(tasks)
                /\ \E i \in Rows :
                      /\ \A j \in Rows \ {i} : tasks'[j] = tasks[j]
                      /\ \/ wpc = "gp_update" /\ tasks'[i].status = "processing"
                         \/ wpc \in {"pt_complete", "ha_complete"}
                              /\ tasks'[i].status = "completed"
                         \/ wpc = "pt_except" /\ tasks'[i].status = "error"
       /\ (\E k \in OperatorReplies : <<k, 0>> \in sent' \ sent) => tasks' = tasks]_vars

\* C24 witness: /clean has answered while a row was completed, a row was failed
\* and a row was queued.
C24_Witness ==
    /\ \E k \in {"clean-done", "clean-error"} : <<k, 0>> \in sent
    /\ \E i, j, k \in Rows :
          /\ tasks[i].status = "completed"
          /\ tasks[j].status = "error"
          /\ tasks[k].status = "queued"

\* C25: a failure to remove a scratch file or to delete a staged object does not
\* change the outcome of a task: a row that has been completed is not failed
\* with that failure afterwards.
C25_CleanupNeverDecides ==
    \A i \in Rows :
        tasks[i].error_message = <<E_OS>>
            => \A k \in 1..Len(hist[i]) : hist[i][k] # "completed"

\* C26: whatever the moment at which get_all_tasks runs its SELECT between the
\* steps of the worker, no row it returns is completed with its summary,
\* sentiment or transcript still NULL, nor in error with its error_message
\* still NULL.
C26_ReaderSeesWholeRows ==
    \A k \in 1..Len(get_all_tasks(tasks)) :
        LET r == get_all_tasks(tasks)[k]
        IN  /\ r.status = "completed"
                => /\ r.result_summary # SqlNull
                   /\ r.result_sentiment # SqlNull
                   /\ r.result_text # SqlNull
            /\ r.status = "error" => r.error_message # SqlNull

\* C26 witness: the SELECT returns a completed row with its results, a row in
\* error with its message, and a row whose UPDATE has not run yet.
C26_Witness ==
    /\ wpc = "pt_except"
    /\ Len(get_all_tasks(tasks)) = 3
    /\ get_all_tasks(tasks)[3].status = "completed"
    /\ get_all_tasks(tasks)[3].result_summary = <<"unpacked", "2">>
    /\ get_all_tasks(tasks)[2].status = "error"
    /\ get_all_tasks(tasks)[2].error_message = <<E_Kwarg>>
    /\ get_all_tasks(tasks)[1].status = "processing"

\* C27: in every reachable state, a row whose error_message is not NULL has the
\* status error.
C27_MessageOnlyOnError ==
    \A i \in Rows : tasks[i].error_message # SqlNull => tasks[i].status = "error"

\* C27 witness: a row has been failed: its error_message holds the message of
\* the exception and its status is error, while another row is still queued.
C27_Witness ==
    \E i, j \in Rows :
        /\ tasks[i].error_message = <<E_Submit>>
        /\ tasks[i].status = "error"
        /\ tasks[j].status = "queued"
        /\ tasks[j].error_message = SqlNull

\* C28: every row, inserted by the handler of a message or by handle_archive,
\* starts with the status queued, and its id differs from and is greater than
\* the id of every row inserted before it.
C28_QueuedWithFreshId ==
    \A i \in Rows :
        /\ hist[i][1] = "queued"
        /\ \A j \in Rows : j < i => tasks[j].id < tasks[i].id

\* C28 witness: three rows, one of them inserted by handle_archive and the last
\* one by the handler of a message after it, the last one still queued.
C28_Witness ==
    /\ Len(tasks) = 3
    /\ tasks[2].file_type = "audio_subtask"
    /\ tasks[3].file_type # "audio_subtask"
    /\ tasks[3].status = "queued"
    /\ tasks[3].id > tasks[2].id

\* the stages of process_task for a recording, in the order of the code
StageRank ==
    [pt_start |-> 0, pt_download |-> 1, pt_upload |-> 2, pt_submit |-> 3,
     pt_poll |-> 4, pt_analyze |-> 5, pt_complete |-> 6, pt_report |-> 7,
     pt_report_failed |-> 8, pt_notify |-> 9, pt_except |-> 10, pt_delete |-> 11]

\* C29: within one run the stages follow one another in the order staging,
\* submission, polling, analysis, persisting, notifying, then the except and
\* the finally clause, never going back, so that the submission and the analysis
\* are each called at most once; and when the submission has raised, the run is
\* in its except clause with no transcript, no analysis response and its row
\* still in processing.
C29_StagesInOrder ==
    [][/\ (wpc \in DOMAIN StageRank /\ wpc' \in DOMAIN StageRank /\ wpc' # wpc)
             => (StageRank[wpc'] > StageRank[wpc] /\ cur' = cur)
       /\ (wpc = "pt_submit" /\ wpc' # wpc) => wpc' \in {"pt_poll", "pt_except"}
       /\ (wpc = "pt_except" /\ exc = E_Submit)
             => /\ loc.text = <<>>
                /\ loc.response = <<>>
                /\ tasks[cur.id].status = "processing"
                /\ wpc' \notin {"pt_poll", "pt_analyze", "pt_complete"}]_vars

\* C29 witness: the submission of an uploaded voice message has raised.
C29_Witness ==
    /\ wpc = "pt_except"
    /\ exc = E_Submit
    /\ cur.file_type = "voice"
    /\ loc.object_name # <<>>

\* C30: analyze_text is called only with a transcript that holds recognised
\* words: a run whose operation finished with no text, be it without chunks or
\* with chunks that carry none, is not at the analysis.
C30_NoTextNeverAnalysed ==
    wpc = "pt_analyze" =>
        \E k \in 1..Len(loc.text) :
            loc.text[k] \notin {SpeakerNames.operator, SpeakerNames.resident}

\* the words of t after the last word that is the marker m in lower case
TextAfterLast(t, m) ==
    LET i == CHOOSE i \in 1..Len(t) :
                 Lower(t[i]) = m /\ \A j \in (i+1)..Len(t) : Lower(t[j]) # m
    IN  [k \in 1..(Len(t) - i) |-> t[i + k]]

\* the markers the text t holds, whatever their case
MarkersIn(t) == {m \in {"m1", "m2"} : \E i \in 1..Len(t) : Lower(t[i]) = m}

\* C31: the IVR cleaning leaves a transcript without marker as it is; a cleaned
\* transcript that differs from the original is the text after the last
\* occurrence of a marker it holds, and is longer than IvrMinLen characters; when
\* no marker leaves more than that, the transcript stays as it is; and when the
\* single marker it holds leaves more, the cleaned transcript is that remainder.
C31_StripAfterLastMarker ==
    [][wpc = "strip" =>
          LET t == loc.text
              r == loc'.text
          IN  /\ MarkersIn(t) = {} => r = t
              /\ r # t => \E m \in MarkersIn(t) :
                              r = TextAfterLast(t, m) /\ CharLen(r) > IvrMinLen
              /\ (\A m \in MarkersIn(t) : CharLen(TextAfterLast(t, m)) <= IvrMinLen)
                    => r = t
              /\ \A m \in MarkersIn(t) :
                    (MarkersIn(t) = {m} /\ CharLen(TextAfterLast(t, m)) > IvrMinLen)
                        => r = TextAfterLast(t, m)]_vars

\* C31 witness: a transcript with the marker twice, followed by one word, has
\* been cleaned to that word.
C31_Witness ==
    /\ wpc = "stripped"
    /\ loc.text_lower = <<"m1", "m1", "hello">>
    /\ loc.text = <<"hello">>

\* the suspension points between the staging and the persisting
TranscribingPcs == {"pt_submit", "pt_poll", "pt_analyze"}

\* C32: the run of a subtask, whose source is the URL of its staged object, is
\* never at the download or the upload, holds no local file and no object name
\* of its own, and transcribes that very URL; the run of any other recording
\* reaches the submission with its object staged under queue/<id>/ and
\* transcribes the URL of that object.
C32_StagedUrlUsedAsIs ==
    /\ (wpc \notin LoopPcs /\ cur.file_type = "audio_subtask")
          => /\ wpc \notin {"pt_download", "pt_upload"}
             /\ \A f \in files : f[2] # ToString(cur.id)
             /\ loc.object_name = <<>>
             /\ StartsWithHttp(cur.source_path)
             /\ wpc \in TranscribingPcs => loc.file_url = cur.source_path
    /\ (wpc \in TranscribingPcs /\ cur.file_type # "audio_subtask")
          => /\ loc.object_name = QueueKey(cur)
             /\ loc.file_url = Url(QueueKey(cur))
             /\ QueueKey(cur) \in bucket

\* C32 witness: the recognition of a subtask has been submitted with the URL of
\* the object the archive expansion staged, which is still in the bucket.
C32_Witness ==
    /\ wpc = "pt_poll"
    /\ cur.file_type = "audio_subtask"
    /\ loc.file_url = cur.source_path
    /\ Tail(cur.source_path) \in bucket
    /\ files = {}

\* C33: get_all_tasks called with a time range returns the rows created in that
\* range: the report handlers, which call it with the start and the end of the
\* period, get their rows from it and never answer with the failure of the call.
C33_RangeCallReturns ==
    <<"report-error", 0>> \notin sent

\* C34: once complete_task has stored the result of a task, a failure to send
\* the report to the group or the message to the owner leaves the row completed:
\* no row that was completed is failed with the error of a Telegram send.
C34_SendFailureKeepsCompleted ==
    \A i \in Rows :
        (\E k \in 1..Len(hist[i]) : hist[i][k] = "completed")
            => tasks[i].error_message # <<E_Telegram>>

\* C35: with the single worker, at most one row has the status processing in
\* every reachable state, whatever raised in the runs before.
C35_AtMostOneProcessing ==
    Cardinality({i \in Rows : tasks[i].status = "processing"}) <= 1

\* the run of an archive is in the except clause because the upload or the
\* add_task of entry loc.i of the walk raised
FailedAtEntry ==
    /\ wpc = "pt_except"
    /\ cur.file_type = "application/zip"
    /\ loc.i # 0

\* the recognised entries of the walk before entry loc.i
EntriesDone == {j \in Recognised(loc.walk) : j < loc.i}

C37_EntriesStagedApart ==
    \A p \in 1..Len(tasks) :
        \A c, d \in ChildrenOf(p) :
            c # d => tasks[c].source_path # tasks[d].source_path

\* C38: a row that is queued is eventually claimed by get_pending_task, also
\* while voice_message_handler and handle_archive keep adding rows, when the
\* worker keeps being scheduled and every call it awaits returns or raises.
C38_QueuedEventuallyClaimed ==
    \A i \in 1..MaxTasks :
        (i \in Rows /\ tasks[i].status = "queued")
            ~> (i \in Rows /\ \E k \in 1..Len(hist[i]) : hist[i][k] = "processing")

\* C38 witness: a subtask that handle_archive enqueued has been claimed, and
\* voice_message_handler has enqueued another task after it.
C38_Witness ==
    \E i, j \in Rows :
        /\ i < j
        /\ tasks[i].file_type = "audio_subtask"
        /\ \E k \in 1..Len(hist[i]) : hist[i][k] = "processing"
        /\ tasks[j].file_type # "audio_subtask"

\* C39: the step in which a run of process_task that staged an object under
\* queue/<id>/ returns to the loop is the step of delete_file, so the deletion
\* of the object has been attempted and the object is gone when it succeeded;
\* a run that staged nothing leaves the bucket as it is. The code reaches
\* delete_file only after os.remove(temp_filename) of the finally clause, and
\* a failing os.remove ends the run with the object still staged.
C39_StagedObjectDeleteAttempted ==
    [][(wpc \notin LoopPcs /\ wpc' \in LoopPcs)
          => /\ (loc.object_name # <<>> /\ loc.object_name \in bucket)
                    => wpc = "pt_delete"
             /\ loc.object_name = <<>> => bucket' = bucket]_vars
====
